---------------------------- MODULE Spec2Model ----------------------------
(***************************************************************************)
(* A model of builtin/check-ignore.c: the query driver of                  *)
(* `git check-ignore`.  One run of cmd_check_ignore is one behaviour: the  *)
(* option flags, argv and the prefix are fixed by Init (the state after    *)
(* parse_options), standard input is supplied by the environment one line  *)
(* at a time, and every step of the program is one action.                 *)
(*                                                                         *)
(* Byte strings are sequences of one-character strings.  The collaborators *)
(* that live outside builtin/check-ignore.c (quote.c, dir.c, pathspec.c,   *)
(* the index) are modelled by the operators of the first two sections.     *)
(***************************************************************************)
EXTENDS Integers, Sequences, FiniteSets, TLC

(***************************************************************************)
(* Bounds of the model.                                                    *)
(***************************************************************************)
\* the largest number of path arguments on the command line
MaxArgs == 2
\* the largest number of lines the environment supplies on standard input
MaxLines == 2

(***************************************************************************)
(* Bytes.                                                                  *)
(***************************************************************************)
DQ  == "\""
BS  == "\\"
TAB == "\t"
LF  == "\n"
NUL == "NUL"

NULL == 0

DT_UNKNOWN == "DT_UNKNOWN"
DT_DIR     == "DT_DIR"
DT_REG     == "DT_REG"

EXC_FLAG_NEGATIVE  == "EXC_FLAG_NEGATIVE"
EXC_FLAG_MUSTBEDIR == "EXC_FLAG_MUSTBEDIR"

RECURSIVE Flatten(_)
Flatten(ss) == IF ss = <<>> THEN <<>> ELSE Head(ss) \o Flatten(Tail(ss))

(***************************************************************************)
(* quote.c: C-style quoting.  The letters used in paths are chosen outside *)
(* the escape letters a b f n r t v and the octal digits, so that a        *)
(* backslash followed by a path letter is a malformed escape, as in        *)
(* unquote_c_style.                                                        *)
(***************************************************************************)
NeedsQuote(c) == c \in {DQ, BS, TAB, LF}

EscapeChar(c) ==
    CASE c = DQ  -> <<BS, DQ>>
      [] c = BS  -> <<BS, BS>>
      [] c = TAB -> <<BS, "t">>
      [] c = LF  -> <<BS, "n">>
      [] OTHER   -> <<c>>

\* quote_c_style(name, NULL, stdout, 0): the bytes written for name
quote_c_style(name) ==
    IF \E k \in 1..Len(name) : NeedsQuote(name[k])
    THEN <<DQ>> \o Flatten([k \in 1..Len(name) |-> EscapeChar(name[k])]) \o <<DQ>>
    ELSE name

\* write_name_quoted(name, stdout, terminator)
write_name_quoted(name, terminator) ==
    IF terminator # NUL
    THEN quote_c_style(name) \o <<terminator>>
    ELSE name \o <<NUL>>

\* The body of unquote_c_style after the opening quote: rest is what is left
\* to scan, acc what has been appended to the output buffer.
RECURSIVE UnquoteBody(_, _)
UnquoteBody(rest, acc) ==
    IF rest = <<>> THEN [ok |-> FALSE, out |-> <<>>]
    ELSE IF Head(rest) = DQ
         THEN IF Len(rest) = 1 THEN [ok |-> TRUE, out |-> acc]
                               ELSE [ok |-> FALSE, out |-> <<>>]
    ELSE IF Head(rest) = BS
         THEN IF Len(rest) < 2 THEN [ok |-> FALSE, out |-> <<>>]
              ELSE LET e == rest[2]
                       r == SubSeq(rest, 3, Len(rest))
                   IN CASE e = "t" -> UnquoteBody(r, Append(acc, TAB))
                        [] e = "n" -> UnquoteBody(r, Append(acc, LF))
                        [] e = DQ  -> UnquoteBody(r, Append(acc, DQ))
                        [] e = BS  -> UnquoteBody(r, Append(acc, BS))
                        [] OTHER   -> [ok |-> FALSE, out |-> <<>>]
    ELSE UnquoteBody(Tail(rest), Append(acc, Head(rest)))

\* unquote_c_style(&nbuf, quoted, NULL): ok is FALSE where the C returns -1
unquote_c_style(quoted) ==
    IF quoted = <<>> \/ Head(quoted) # DQ
    THEN [ok |-> FALSE, out |-> <<>>]
    ELSE UnquoteBody(Tail(quoted), <<>>)

\* printf("%d", n) for n >= 0
Digit(d) == CASE d = 0 -> "0" [] d = 1 -> "1" [] d = 2 -> "2" [] d = 3 -> "3"
              [] d = 4 -> "4" [] d = 5 -> "5" [] d = 6 -> "6" [] d = 7 -> "7"
              [] d = 8 -> "8" [] d = 9 -> "9"

RECURSIVE Decimal(_)
Decimal(n) == IF n < 10 THEN <<Digit(n)>>
              ELSE Append(Decimal(n \div 10), Digit(n % 10))


(***************************************************************************)
(* The repository the run looks at: the paths the inputs are drawn from,   *)
(* the index, the ignore rules, the file types and the boundaries.         *)
(***************************************************************************)
pC == <<"c">>
pD == <<"d">>
pK == <<"k">>
pH == <<"h">>
pQ == <<"u", TAB>>
pX == <<"x">>
pL == <<"l", "/", "y">>
pM == <<"m", "/", "y">>

\* what a command line can name
PathArgs == {pC, pD, pK, pH, pQ, pX, pL, pM}

\* what one record of standard input can hold: a path, a quoted path that
\* needs its quotes, a quoted path that does not, a badly quoted one, or
\* nothing
qQ   == <<DQ, "u", BS, "t", DQ>>
qD   == <<DQ, "d", DQ>>
qBad == <<DQ, "d">>
Lines == PathArgs \cup {qQ, qD, qBad, <<>>}

Prefixes == {<<>>, <<"p", "/">>}

\* the rule list the standard excludes set up, in file order
Rules == <<
    [src |-> <<".", "g">>, srcpos |-> 1,  pattern |-> <<"c">>, flags |-> {}],
    [src |-> <<".", "g">>, srcpos |-> 3,  pattern |-> <<"d">>, flags |-> {}],
    [src |-> <<".", "g">>, srcpos |-> 12, pattern |-> <<"k">>,
     flags |-> {EXC_FLAG_MUSTBEDIR}],
    [src |-> <<".", "g">>, srcpos |-> 20, pattern |-> <<"h">>,
     flags |-> {EXC_FLAG_NEGATIVE, EXC_FLAG_MUSTBEDIR}],
    [src |-> <<"e", DQ>>,  srcpos |-> 2,  pattern |-> <<"u", TAB>>,
     flags |-> {EXC_FLAG_NEGATIVE}] >>

RECURSIVE Basename(_)
Basename(p) ==
    IF \E k \in 1..Len(p) : p[k] = "/"
    THEN Basename(Tail(p))
    ELSE p

\* get_dtype: what lstat says the path is
FileType(full) == IF Basename(full) = <<"h">> THEN DT_DIR ELSE DT_REG

\* last_exclude_matching_from_list, scanning the rules from the last to the
\* first; dt is *dtype, which a directory-only rule resolves when it is
\* still DT_UNKNOWN and which the caller gets back
RECURSIVE ScanRules(_, _, _)
ScanRules(k, full, dt) ==
    IF k = 0 THEN [exclude |-> NULL, dtype |-> dt]
    ELSE LET x   == Rules[k]
             dir == EXC_FLAG_MUSTBEDIR \in x.flags
             dt2 == IF dir /\ dt = DT_UNKNOWN THEN FileType(full) ELSE dt
         IN IF dir /\ dt2 # DT_DIR THEN ScanRules(k - 1, full, dt2)
            ELSE IF Basename(full) = x.pattern
                 THEN [exclude |-> k, dtype |-> dt2]
                 ELSE ScanRules(k - 1, full, dt2)

\* last_exclude_matching(dir, full_path, &dtype): the matching rule (or
\* NULL) and the value left in dtype
last_exclude_matching(full, dt) == ScanRules(Len(Rules), full, dt)

\* find_pathspecs_matching_against_index: seen[i] for one pathspec
InIndex(path) == path \in {pC, pM}

find_pathspecs_matching_against_index(pathspec) ==
    [k \in 1..Len(pathspec) |-> InIndex(pathspec[k])]

\* prefix_path(prefix, len, path)
prefix_path(pfx, path) == pfx \o path

\* the paths check_path_for_gitlink dies on, and those
\* die_if_path_beyond_symlink dies on, under the given prefix
InSubmodule(pfx, full)   == full = pfx \o pM
BeyondSymlink(pfx, full) == full = pfx \o pL


(***************************************************************************)
(* The state of one run.                                                   *)
(***************************************************************************)
VARIABLES
    quiet, verbose, stdin_paths, show_non_matching, null_term_line,
        \* the option flags, as parse_options left them
    argv,           \* the path arguments left after parse_options
    prefix,         \* the prefix cmd_check_ignore is called with
    pc,             \* where the program is
    pathspec,       \* check_ignore's pathspec argument
    seen,           \* check_ignore's seen array
    i,              \* check_ignore's loop index (from 1)
    num_ignored,    \* check_ignore's num_ignored
    dtype,          \* check_ignore's dtype
    total,          \* the caller's num_ignored
    stdoutBuf,      \* bytes written to stdout and not yet flushed
    sink,           \* bytes flushed to file descriptor 1
    stderr,         \* the messages written to stderr
    exitStatus,     \* the exit status of the process, -1 while it runs
    indexRead,      \* read_cache has been called
    linesRead,      \* the records strbuf_getline has returned so far
    normalized,     \* every result of prefix_path so far
    membership,     \* every pathspec given to the index membership filter
    oracle,         \* every (path, dtype) given to last_exclude_matching
    log             \* one entry for every path check_ignore has decided

flags == <<quiet, verbose, stdin_paths, show_non_matching, null_term_line>>
input == <<argv, prefix>>
locals == <<pathspec, seen, i, num_ignored, dtype>>
output == <<stdoutBuf, sink, stderr, exitStatus>>
history == <<indexRead, linesRead, normalized, membership, oracle, log>>
vars == <<flags, input, pc, locals, total, output, history>>

argc == Len(argv)

SeqsUpTo(S, n) == UNION {[1..k -> S] : k \in 0..n}

Init ==
    /\ quiet \in BOOLEAN
    /\ verbose \in BOOLEAN
    /\ stdin_paths \in BOOLEAN
    /\ show_non_matching \in BOOLEAN
    /\ null_term_line \in BOOLEAN
    /\ argv \in SeqsUpTo(PathArgs, MaxArgs)
    /\ prefix \in Prefixes
    /\ pc = "options"
    /\ pathspec = <<>>
    /\ seen = <<>>
    /\ i = 1
    /\ num_ignored = 0
    /\ dtype = DT_UNKNOWN
    /\ total = 0
    /\ stdoutBuf = <<>>
    /\ sink = <<>>
    /\ stderr = <<>>
    /\ exitStatus = -1
    /\ indexRead = FALSE
    /\ linesRead = <<>>
    /\ normalized = <<>>
    /\ membership = <<>>
    /\ oracle = <<>>
    /\ log = <<>>

\* maybe_flush_or_die(stdout, desc): what is on file descriptor 1 and what
\* is left in the buffer afterwards.  The flush is taken to happen and to
\* succeed.
maybe_flush_or_die(flushed, buffered) ==
    [sink |-> flushed \o buffered, buf |-> <<>>]

\* die(msg): the message goes to stderr and the process exits with 128;
\* exit writes out what stdio still buffers
Die(msg) ==
    /\ pc' = "fatal"
    /\ stderr' = Append(stderr, msg)
    /\ exitStatus' = 128
    /\ sink' = sink \o stdoutBuf
    /\ stdoutBuf' = <<>>

(***************************************************************************)
(* cmd_check_ignore: the option checks.                                    *)
(***************************************************************************)
\* the option checks without the one for a missing path argument
UsageErrorAllowsNoPath ==
    IF stdin_paths /\ argc > 0
        THEN "cannot specify pathnames with --stdin"
    ELSE IF ~stdin_paths /\ null_term_line
        THEN "-z only makes sense with --stdin"
    ELSE IF quiet /\ argc > 1
        THEN "--quiet is only valid with a single pathname"
    ELSE IF quiet /\ verbose
        THEN "cannot have both --quiet and --verbose"
    ELSE IF show_non_matching /\ ~verbose
        THEN "--non-matching is only valid with --verbose"
    ELSE ""

\* the message of the first die() the option checks reach, "" when none
UsageError ==
    IF stdin_paths /\ argc > 0
        THEN "cannot specify pathnames with --stdin"
    ELSE IF ~stdin_paths /\ null_term_line
        THEN "-z only makes sense with --stdin"
    ELSE IF ~stdin_paths /\ argc = 0
        THEN "no path specified"
    ELSE IF quiet /\ argc > 1
        THEN "--quiet is only valid with a single pathname"
    ELSE IF quiet /\ verbose
        THEN "cannot have both --quiet and --verbose"
    ELSE IF show_non_matching /\ ~verbose
        THEN "--non-matching is only valid with --verbose"
    ELSE ""

ValidateOptions ==
    /\ pc = "options"
    /\ IF UsageError # ""
       THEN /\ Die(UsageError)
            /\ UNCHANGED <<flags, input, locals, total, history>>
       ELSE /\ pc' = "read_cache"
            /\ UNCHANGED <<flags, input, locals, total, output, history>>

\* read_cache() and setup_standard_excludes(); ok is whether the index file
\* could be read.  In direct mode check_ignore is then called with argv.
ReadCache ==
    /\ pc = "read_cache"
    /\ \E ok \in BOOLEAN :
        IF ~ok
        THEN /\ Die("index file corrupt")
             /\ indexRead' = TRUE
             /\ UNCHANGED <<flags, input, locals, total, linesRead,
                            normalized, membership, oracle, log>>
        ELSE /\ indexRead' = TRUE
             /\ pc' = IF stdin_paths THEN "getline" ELSE "check_ignore"
             /\ pathspec' = IF stdin_paths THEN pathspec ELSE argv
             /\ UNCHANGED <<flags, input, seen, i, num_ignored, dtype, total,
                            output, linesRead, normalized, membership,
                            oracle, log>>

(***************************************************************************)
(* check_ignore_stdin_paths.                                               *)
(***************************************************************************)
\* the line is dequoted in NUL mode too
NeedsUnquoteAnyMode(buf) == buf # <<>> /\ Head(buf) = DQ

\* the line is dequoted: line_termination && buf.buf[0] == '"'
NeedsUnquote(buf) == ~null_term_line /\ buf # <<>> /\ Head(buf) = DQ

\* One turn of the while loop up to the call of check_ignore: the
\* environment supplies the next record, which is dequoted when it has to be.
StdinGetLine ==
    /\ pc = "getline"
    /\ Len(linesRead) < MaxLines
    /\ \E line \in Lines :
        /\ linesRead' = Append(linesRead, line)
        /\ IF NeedsUnquote(line) /\ ~unquote_c_style(line).ok
           THEN /\ Die("line is badly quoted")
                /\ UNCHANGED <<flags, input, locals, total, indexRead,
                               normalized, membership, oracle, log>>
           ELSE /\ pathspec' = << IF NeedsUnquote(line)
                                  THEN unquote_c_style(line).out
                                  ELSE line >>
                /\ pc' = "check_ignore"
                /\ UNCHANGED <<flags, input, seen, i, num_ignored, dtype,
                               total, output, indexRead, normalized,
                               membership, oracle, log>>

\* strbuf_getline returns EOF: the loop ends and the total is returned
StdinEOF ==
    /\ pc = "getline"
    /\ pc' = "exit"
    /\ UNCHANGED <<flags, input, locals, total, output, history>>


(***************************************************************************)
(* output_exclude and check_ignore.                                        *)
(***************************************************************************)
\* char *bang: "!" for a negated rule
Bang(exclude) ==
    IF exclude # NULL /\ EXC_FLAG_NEGATIVE \in Rules[exclude].flags
    THEN <<"!">> ELSE <<>>

\* the slash decided by the flag the bang is decided by
SlashTestsNegative(exclude) ==
    IF exclude # NULL /\ EXC_FLAG_NEGATIVE \in Rules[exclude].flags
    THEN <<"/">> ELSE <<>>

\* char *slash: "/" for a directory-only rule
Slash(exclude) ==
    IF exclude # NULL /\ EXC_FLAG_MUSTBEDIR \in Rules[exclude].flags
    THEN <<"/">> ELSE <<>>

\* the bytes output_exclude(path, exclude) writes to stdout
output_exclude(path, exclude) ==
    LET bang  == Bang(exclude)
        slash == Slash(exclude)
    IN IF ~null_term_line
       THEN IF ~verbose
            THEN write_name_quoted(path, LF)
            ELSE (IF exclude # NULL
                  THEN quote_c_style(Rules[exclude].src)
                       \o <<":">> \o Decimal(Rules[exclude].srcpos) \o <<":">>
                       \o bang \o Rules[exclude].pattern \o slash \o <<TAB>>
                  ELSE <<":", ":", TAB>>)
                 \o quote_c_style(path) \o <<LF>>
       ELSE IF ~verbose
            THEN path \o <<NUL>>
            ELSE IF exclude # NULL
                 THEN Rules[exclude].src \o <<NUL>>
                      \o Decimal(Rules[exclude].srcpos) \o <<NUL>>
                      \o bang \o Rules[exclude].pattern \o slash \o <<NUL>>
                      \o path \o <<NUL>>
                 ELSE <<NUL, NUL, NUL>> \o path \o <<NUL>>

\* the boundaries are looked at for the paths the index does not hold only
PathDiesUnlessSeen(full) ==
    ~seen[i] /\ (InSubmodule(prefix, full) \/ BeyondSymlink(prefix, full))

\* check_path_for_gitlink or die_if_path_beyond_symlink ends the run
PathDies(full) == InSubmodule(prefix, full) \/ BeyondSymlink(prefix, full)

\* the rule engine is asked about every path
ShouldQueryAlways(seen_i) == TRUE

\* the rule engine is asked about the path: !seen[i]
ShouldQuery(seen_i) == ~seen_i

\* a record is written whatever quiet says
ShouldOutputDespiteQuiet(exclude) == exclude # NULL \/ show_non_matching

\* a record is written: !quiet && (exclude || show_non_matching)
ShouldOutput(exclude) == ~quiet /\ (exclude # NULL \/ show_non_matching)

\* a match of a negated rule does not count
CountedUnlessNegated(exclude) ==
    exclude # NULL /\ EXC_FLAG_NEGATIVE \notin Rules[exclude].flags

\* the path counts as ignored: if (exclude) num_ignored++
Counted(exclude) == exclude # NULL

\* The entry of check_ignore: the locals are initialized, an empty pathspec
\* returns 0 after a diagnostic, and otherwise the index is asked about the
\* whole pathspec.
CheckIgnoreEnter ==
    /\ pc = "check_ignore"
    /\ num_ignored' = 0
    /\ dtype' = DT_UNKNOWN
    /\ i' = 1
    /\ IF pathspec = <<>>
       THEN /\ stderr' = IF ~quiet THEN Append(stderr, "no pathspec given.")
                                   ELSE stderr
            /\ pc' = "return"
            /\ UNCHANGED <<seen, membership>>
       ELSE /\ seen' = find_pathspecs_matching_against_index(pathspec)
            /\ membership' = Append(membership, pathspec)
            /\ pc' = "loop"
            /\ UNCHANGED stderr
    /\ UNCHANGED <<flags, input, pathspec, total, stdoutBuf, sink, exitStatus,
                   indexRead, linesRead, normalized, oracle, log>>

\* One turn of the for loop over pathspec[i].
CheckIgnorePath ==
    /\ pc = "loop"
    /\ LET path      == pathspec[i]
           full_path == prefix_path(prefix, path)
           query     == ShouldQuery(seen[i])
           answer    == last_exclude_matching(full_path, dtype)
           exclude   == IF query THEN answer.exclude ELSE NULL
           written   == IF ShouldOutput(exclude)
                        THEN output_exclude(path, exclude) ELSE <<>>
       IN /\ normalized' = Append(normalized, full_path)
          /\ IF PathDies(full_path)
             THEN /\ Die("path crosses a submodule or a symbolic link")
                  /\ UNCHANGED <<locals, oracle, log>>
             ELSE /\ dtype' = IF query THEN answer.dtype ELSE dtype
                  /\ oracle' = IF query
                               THEN Append(oracle, [path |-> full_path,
                                                    dtype |-> dtype])
                               ELSE oracle
                  /\ stdoutBuf' = stdoutBuf \o written
                  /\ num_ignored' = IF Counted(exclude) THEN num_ignored + 1
                                                        ELSE num_ignored
                  /\ log' = Append(log, [arg     |-> path,
                                         full    |-> full_path,
                                         seen    |-> seen[i],
                                         queried |-> query,
                                         hint    |-> dtype,
                                         exclude |-> exclude,
                                         counted |-> Counted(exclude),
                                         record  |-> written,
                                         call    |-> Len(membership)])
                  /\ i' = i + 1
                  /\ pc' = IF i = Len(pathspec) THEN "return" ELSE "loop"
                  /\ UNCHANGED <<pathspec, seen, sink, stderr, exitStatus>>
    /\ UNCHANGED <<flags, input, total, indexRead, linesRead, membership>>

\* check_ignore returns num_ignored to its caller, which adds it to its own
\* count and calls maybe_flush_or_die(stdout, ...)
CheckIgnoreReturn ==
    /\ pc = "return"
    /\ total' = total + num_ignored
    /\ sink' = maybe_flush_or_die(sink, stdoutBuf).sink
    /\ stdoutBuf' = maybe_flush_or_die(sink, stdoutBuf).buf
    /\ pc' = IF stdin_paths THEN "getline" ELSE "exit"
    /\ UNCHANGED <<flags, input, locals, stderr, exitStatus, history>>

\* return !num_ignored
ExitStatus(n) == IF n = 0 THEN 1 ELSE 0

\* clear_directory and the return from cmd_check_ignore
Exit ==
    /\ pc = "exit"
    /\ exitStatus' = ExitStatus(total)
    /\ pc' = "done"
    /\ UNCHANGED <<flags, input, locals, total, stdoutBuf, sink, stderr,
                   history>>

Next ==
    \/ ValidateOptions
    \/ ReadCache
    \/ StdinGetLine
    \/ StdinEOF
    \/ CheckIgnoreEnter
    \/ CheckIgnorePath
    \/ CheckIgnoreReturn
    \/ Exit

Spec == Init /\ [][Next]_vars


(***************************************************************************)
(* What the properties below are stated with.                              *)
(***************************************************************************)
Decided == 1..Len(log)

\* the bytes of all records written so far, in the order of the paths
AllRecords == Flatten([k \in Decided |-> log[k].record])

Matched(k) == log[k].exclude # NULL

\* what the rule engine answers for a path when asked with the hint unknown
OracleVerdict(full) == last_exclude_matching(full, DT_UNKNOWN).exclude

\* the running total of ignored paths while the run is alive
IgnoredCount == IF pc \in {"loop", "return"} THEN total + num_ignored ELSE total

Running == pc \notin {"fatal", "done"}

Tracked(k) == InIndex(log[k].arg)

Last(s) == s[Len(s)]

\* the part of s after its last c (all of s when it holds no c)
AfterLast(s, c) ==
    LET at == {k \in 1..Len(s) : s[k] = c}
    IN IF at = {} THEN s
       ELSE SubSeq(s, (CHOOSE k \in at : \A j \in at : j <= k) + 1, Len(s))

\* the path field of a record: the last field of the layout
PathFieldOf(record) ==
    IF null_term_line
    THEN AfterLast(SubSeq(record, 1, Len(record) - 1), NUL) \o <<NUL>>
    ELSE AfterLast(record, TAB)

\* a path as a record of the current mode spells it
Spelled(path) ==
    IF null_term_line THEN path \o <<NUL>> ELSE quote_c_style(path) \o <<LF>>

(***************************************************************************)
(* C1: every path the index membership filter flags as tracked gets the    *)
(* verdict NoMatch whatever the rule engine would answer: the engine is    *)
(* not asked about it, it adds nothing to the count of ignored paths, and  *)
(* it produces a record only as an unmatched path, that is only with       *)
(* show_non_matching.                                                      *)
(***************************************************************************)
C1_TrackedIsNoMatch ==
    /\ \A k \in Decided :
         Tracked(k) =>
            /\ log[k].exclude = NULL
            /\ ~log[k].queried
            /\ ~log[k].counted
            /\ log[k].record # <<>> =>
                 /\ show_non_matching
                 /\ ~quiet
                 /\ log[k].record =
                      (IF verbose
                       THEN IF null_term_line THEN <<NUL, NUL, NUL>>
                                              ELSE <<":", ":", TAB>>
                       ELSE <<>>) \o Spelled(log[k].arg)
    /\ \A q \in 1..Len(oracle) :
         \A p \in PathArgs : InIndex(p) => oracle[q].path # prefix \o p
    /\ Len(oracle) = Cardinality({k \in Decided : ~Tracked(k)})
    /\ Running =>
         IgnoredCount = Cardinality({k \in Decided : ~Tracked(k) /\ Matched(k)})

\* a tracked path that a rule matches has been decided and reported as
\* unmatched, after an untracked path of the same batch was reported ignored
C1_Witness ==
    /\ pc = "done"
    /\ Len(log) = 2
    /\ ~Tracked(1) /\ Matched(1)
    /\ Tracked(2)
    /\ OracleVerdict(log[2].full) # NULL
    /\ log[2].record # <<>>

(***************************************************************************)
(* C2: for every path that is not tracked, wherever it stands in a batch,  *)
(* the verdict is what the rule engine answers for its canonical form when *)
(* asked with the file-type hint unknown; nothing is carried from one      *)
(* path's query to the next.                                               *)
(***************************************************************************)
C2_VerdictIsOracleWithUnknownHint ==
    \A k \in Decided :
        ~Tracked(k) =>
            log[k].exclude = OracleVerdict(log[k].full)

(***************************************************************************)
(* C3: in a run that ends without a fatal abort, the count of ignored      *)
(* paths is the number of paths of the whole run whose verdict is Matched  *)
(* (negated rules included, whatever quiet, verbose and show_non_matching  *)
(* are), the exit status is 0 exactly when that count is positive and 1    *)
(* otherwise, and a streaming run over no input line exits with 1.         *)
(***************************************************************************)
C3_CountAndExitStatus ==
    pc = "done" =>
        /\ total = Cardinality({k \in Decided : Matched(k)})
        /\ exitStatus \in {0, 1}
        /\ exitStatus = 0 <=> total > 0
        /\ (stdin_paths /\ linesRead = <<>>) => exitStatus = 1

\* a quiet direct run whose single path matches a negated rule: no record,
\* exit status 0
C3_Witness ==
    /\ pc = "done"
    /\ ~stdin_paths
    /\ quiet
    /\ Len(log) = 1
    /\ Matched(1) /\ EXC_FLAG_NEGATIVE \in Rules[log[1].exclude].flags
    /\ log[1].record = <<>>
    /\ exitStatus = 0

(***************************************************************************)
(* C4: for every path decided, a record is emitted exactly when quiet is   *)
(* not set and the verdict is Matched or show_non_matching is set; it is   *)
(* one record, the records stand on stdout in the order of the paths, and  *)
(* the path field of a record is the raw path argument, not the canonical  *)
(* path joined with the prefix.                                            *)
(***************************************************************************)
C4_OneRecordInOrderWithRawPath ==
    /\ \A k \in Decided :
         /\ log[k].record # <<>> <=>
              (~quiet /\ (Matched(k) \/ show_non_matching))
         /\ log[k].record # <<>> =>
              /\ PathFieldOf(log[k].record) = Spelled(log[k].arg)
              /\ prefix # <<>> => PathFieldOf(log[k].record) # Spelled(log[k].full)
              /\ Cardinality({j \in 1..Len(log[k].record) :
                    log[k].record[j] = (IF null_term_line THEN NUL ELSE LF)})
                 = (IF null_term_line /\ verbose THEN 4 ELSE 1)
    /\ sink \o stdoutBuf = AllRecords

\* under a prefix, a path whose spelling needs quoting was reported and
\* flushed, and the non-matching path after it was not reported
C4_Witness ==
    /\ prefix # <<>>
    /\ ~show_non_matching
    /\ Len(log) = 2
    /\ log[1].record # <<>>
    /\ log[2].record = <<>>
    /\ log[1].arg = pQ
    /\ sink # <<>>

(***************************************************************************)
(* C5: the fields of a record are fixed by verbose, null_term_line and the *)
(* verdict as in the table of the four layouts; no field is quoted in NUL  *)
(* mode.                                                                   *)
(***************************************************************************)
C5_RulePattern(e) ==
    (IF EXC_FLAG_NEGATIVE \in Rules[e].flags THEN <<"!">> ELSE <<>>)
    \o Rules[e].pattern
    \o (IF EXC_FLAG_MUSTBEDIR \in Rules[e].flags THEN <<"/">> ELSE <<>>)

C5_NulFields(fields) == Flatten([k \in 1..Len(fields) |-> fields[k] \o <<NUL>>])

C5_Layout(path, e) ==
    CASE ~verbose /\ ~null_term_line -> quote_c_style(path) \o <<LF>>
      [] ~verbose /\ null_term_line  -> path \o <<NUL>>
      [] verbose /\ ~null_term_line  ->
            (IF e # NULL
             THEN quote_c_style(Rules[e].src) \o <<":">>
                  \o Decimal(Rules[e].srcpos) \o <<":">> \o C5_RulePattern(e)
             ELSE <<":", ":">>)
            \o <<TAB>> \o quote_c_style(path) \o <<LF>>
      [] verbose /\ null_term_line   ->
            IF e # NULL
            THEN C5_NulFields(<<Rules[e].src, Decimal(Rules[e].srcpos),
                                C5_RulePattern(e), path>>)
            ELSE C5_NulFields(<< <<>>, <<>>, <<>>, path >>)

C5_RecordLayout ==
    \A k \in Decided :
        log[k].record # <<>> => log[k].record = C5_Layout(log[k].arg, log[k].exclude)

\* a verbose newline run that reported a match of a negated rule, where the
\* source file and the path both need quoting, and then a non-match
C5_Witness ==
    /\ verbose /\ ~null_term_line /\ show_non_matching
    /\ Len(log) = 2
    /\ Matched(1)
    /\ log[1].arg = pQ
    /\ EXC_FLAG_NEGATIVE \in Rules[log[1].exclude].flags
    /\ ~Matched(2)
    /\ log[1].record # <<>> /\ log[2].record # <<>>

(***************************************************************************)
(* C6: each of the four invalid option combinations (null_term_line        *)
(* without stdin_paths; stdin_paths with path arguments; quiet with other  *)
(* than one path argument or with verbose; show_non_matching without       *)
(* verbose) ends the run with a fatal error before the index is read,      *)
(* before any path is normalized, tested for membership or given to the    *)
(* rule engine, and before any byte is written to stdout.                  *)
(***************************************************************************)
C6_InvalidCombination ==
    \/ null_term_line /\ ~stdin_paths
    \/ stdin_paths /\ argc > 0
    \/ quiet /\ (argc # 1 \/ verbose)
    \/ show_non_matching /\ ~verbose

C6_InvalidOptionsAreFatalFirst ==
    C6_InvalidCombination =>
        /\ pc \in {"options", "fatal"}
        /\ ~indexRead
        /\ normalized = <<>> /\ membership = <<>> /\ oracle = <<>>
        /\ stdoutBuf = <<>> /\ sink = <<>>

(***************************************************************************)
(* C7: in every run that passes the option checks with quiet set, exactly  *)
(* one path is decided during the run, in stdin mode too.                  *)
(***************************************************************************)
C7_QuietDecidesOnePath ==
    (quiet /\ pc = "done") => Len(log) = 1

(***************************************************************************)
(* C8: in streaming mode each input line is a batch of its own, and the    *)
(* whole cycle of a line (normalize, decide, format, flush) is complete    *)
(* before the next line is read; a badly quoted line in newline mode ends  *)
(* the run at that line with the records of the earlier lines on stdout    *)
(* and nothing done for that line; in NUL mode a leading double quote is   *)
(* never dequoted and never fatal.                                         *)
(***************************************************************************)
C8_BadlyQuoted(line) ==
    /\ line # <<>>
    /\ line[1] = DQ
    /\ ~unquote_c_style(line).ok

C8_StreamingLineByLine ==
    stdin_paths =>
        /\ \A b \in 1..Len(membership) :
             /\ Len(membership[b]) = 1
             /\ null_term_line => membership[b][1] = linesRead[b]
             /\ (~null_term_line /\ linesRead[b] # <<>> /\ linesRead[b][1] = DQ)
                    => /\ unquote_c_style(linesRead[b]).ok
                       /\ membership[b][1] = unquote_c_style(linesRead[b]).out
             /\ (~null_term_line /\ (linesRead[b] = <<>> \/ linesRead[b][1] # DQ))
                    => membership[b][1] = linesRead[b]
        /\ \A k \in Decided : log[k].call = k
        /\ pc = "getline" =>
             /\ Len(log) = Len(linesRead)
             /\ Len(normalized) = Len(linesRead)
             /\ stdoutBuf = <<>>
             /\ sink = AllRecords
             /\ total = Cardinality({k \in Decided : Matched(k)})
        /\ \A n \in 1..Len(linesRead) :
             (~null_term_line /\ C8_BadlyQuoted(linesRead[n])) =>
                /\ n = Len(linesRead)
                /\ pc = "fatal"
                /\ Last(stderr) = "line is badly quoted"
                /\ exitStatus = 128
                /\ Len(log) = n - 1
                /\ Len(normalized) = n - 1
                /\ Len(membership) = n - 1
                /\ Len(oracle) <= n - 1
                /\ sink = AllRecords
        /\ null_term_line =>
             \A m \in 1..Len(stderr) : stderr[m] # "line is badly quoted"

\* the second line of a newline-mode stream is badly quoted: the run has
\* aborted with the record of the first line on stdout
C8_Witness ==
    /\ stdin_paths /\ ~null_term_line
    /\ Len(linesRead) = 2
    /\ linesRead[1] = qQ
    /\ C8_BadlyQuoted(linesRead[2])
    /\ pc = "fatal"
    /\ Len(log) = 1
    /\ sink # <<>>

(***************************************************************************)
(* C9: a path that crosses a submodule or a symbolic link is fatal for the *)
(* whole run: no later path is normalized, queried, counted or emitted,    *)
(* the run does not reach the exit status 0 or 1, and what was written     *)
(* before stays on stdout.  Every path is validated before its verdict is  *)
(* decided, a tracked path too.                                            *)
(***************************************************************************)
C9_CrossesBoundary(full) ==
    \E p \in {pM, pL} : full = prefix \o p

C9_BoundaryViolationIsFatal ==
    /\ \A k \in Decided : ~C9_CrossesBoundary(log[k].full)
    /\ \A n \in 1..Len(normalized) :
         C9_CrossesBoundary(normalized[n]) =>
            /\ n = Len(normalized)
            /\ pc = "fatal"
            /\ exitStatus = 128
            /\ Len(log) = n - 1
            /\ Len(oracle) = Cardinality({k \in Decided : log[k].queried})
            /\ stdoutBuf = <<>>
            /\ sink = AllRecords

\* a streaming run whose first path was reported and whose second path, a
\* tracked one inside a submodule, ended the run
C9_Witness ==
    /\ stdin_paths
    /\ pc = "fatal"
    /\ Len(normalized) = 2
    /\ Last(normalized) = prefix \o pM
    /\ InIndex(Last(linesRead))
    /\ Len(log) = 1
    /\ sink # <<>>

(***************************************************************************)
(* C10, as claimed: an empty pathspec in direct mode is not fatal: the run *)
(* reports a diagnostic on stderr (none with quiet), writes no record,     *)
(* counts nothing and ends with the exit status 1.                         *)
(***************************************************************************)
C10_EmptyPathspecDirect ==
    /\ ~stdin_paths
    /\ argc = 0
    /\ ~null_term_line
    /\ ~(quiet /\ verbose)
    /\ show_non_matching => verbose

C10_EmptyPathspecIsNotFatal ==
    (C10_EmptyPathspecDirect /\ ~Running) =>
        /\ pc = "done"
        /\ exitStatus = 1
        /\ sink = <<>>
        /\ total = 0
        /\ stderr = IF quiet THEN <<>> ELSE <<"no pathspec given.">>

(***************************************************************************)
(* C10, amended: an empty pathspec in direct mode is fatal, with quiet or  *)
(* without: the option checks end the run with "no path specified" and     *)
(* the abort status before the index is read; no record is written and     *)
(* nothing is counted.  The empty-pathspec diagnostic of check_ignore is   *)
(* written in no run.                                                      *)
(***************************************************************************)
C10_EmptyPathspecIsFatal ==
    /\ (C10_EmptyPathspecDirect /\ pc # "options") =>
          /\ pc = "fatal"
          /\ exitStatus = 128
          /\ stderr = <<"no path specified">>
          /\ ~indexRead
          /\ sink = <<>> /\ stdoutBuf = <<>>
          /\ log = <<>> /\ total = 0
    /\ \A m \in 1..Len(stderr) : stderr[m] # "no pathspec given."

\* a direct run without quiet and without path arguments has aborted
C10_Witness ==
    /\ C10_EmptyPathspecDirect
    /\ ~quiet
    /\ pc = "fatal"
    /\ stderr = <<"no path specified">>

=============================================================================
